---- MODULE Spec2Model ----
(***************************************************************************)
(* TalentAgent: the CV upload form (CVUpload.tsx), the candidate list      *)
(* (CandidateList.tsx) and the data ingestion layer's batch loader and     *)
(* content cache (README of data_ingestion).                               *)
(*                                                                         *)
(* A React component is modelled at the granularity of the JavaScript      *)
(* event loop: an event handler, or the continuation of an async function  *)
(* after an await, runs to completion and the component has re-rendered    *)
(* before the next event is handled.                                       *)
(***************************************************************************)
EXTENDS Integers, Sequences, FiniteSets, TLC

(***************************************************************************)
(* Bounds                                                                  *)
(***************************************************************************)
\* upload requests issued in one behaviour
MaxUploads == 3
\* files in one drop or selection
MaxDropped == 2

(***************************************************************************)
(* CVUpload.tsx                                                            *)
(***************************************************************************)
VARIABLES
    loading,      \* useState(false)
    message,      \* useState(null): {type, text} | null
    formData,     \* useState({email, fullName, phone})
    inFlight,     \* axios.post promises not yet settled, oldest first
    posted,       \* POSTs issued to /api/candidates/upload
    timers,       \* pending setTimeout(onUploadSuccess, 1500) callbacks
    resolved,     \* axios.post promises that were fulfilled
    rejected,     \* axios.post promises that were rejected
    callbacks,    \* invocations of the onUploadSuccess prop
    event         \* the event handled last, with the files dropped or uploaded

uploadVars == <<loading, message, formData, inFlight, posted, timers,
                resolved, rejected, callbacks, event>>

PDF_MIME == "application/pdf"
DOCX_MIME == "application/vnd.openxmlformats-officedocument.wordprocessingml.document"

\* the values a user types into the three inputs
Emails == {"", "ann@x.io"}
FullNames == {"", "Ann Lee"}
Phones == {"", "+15550100"}

\* a File: the extension of its name, its MIME type, and whether the server
\* can read the document in it
File(e, m, c) == [ext |-> e, mime |-> m, corrupt |-> c]
Files ==
    { File(".pdf", PDF_MIME, FALSE), File(".pdf", PDF_MIME, TRUE),
      File(".docx", DOCX_MIME, FALSE), File(".docx", DOCX_MIME, TRUE),
      File(".txt", "text/plain", FALSE), File(".png", "image/png", FALSE),
      File(".pdf", "", FALSE) }

NoFile == [ext |-> "", mime |-> "", corrupt |-> FALSE]

RECURSIVE SeqsUpTo(_, _)
SeqsUpTo(S, n) ==
    IF n = 0 THEN {<<>>}
    ELSE LET shorter == SeqsUpTo(S, n - 1)
         IN  shorter \cup {Append(s, x) : s \in {t \in shorter : Len(t) = n - 1}, x \in S}

\* what a drag-and-drop or the file dialog can hand to the dropzone
Drops == SeqsUpTo(Files, MaxDropped)

\* useDropzone({accept}): MIME type -> extensions
accept == [m \in {PDF_MIME, DOCX_MIME} |->
              IF m = PDF_MIME THEN {".pdf"} ELSE {".docx"}]

\* useDropzone({maxFiles: 1})
maxFiles == 1

\* a file passes `accept` on its MIME type or on the extension of its name
Accepts_AnyFile(f) == TRUE
Accepts(f) ==
    \/ f.mime \in DOMAIN accept
    \/ \E m \in DOMAIN accept : f.ext \in accept[m]

RECURSIVE Filter(_)
Filter(fs) ==
    IF fs = <<>> THEN <<>>
    ELSE IF Accepts(Head(fs)) THEN <<Head(fs)>> \o Filter(Tail(fs))
         ELSE Filter(Tail(fs))

\* the acceptedFiles the dropzone passes to onDrop: the files that pass
\* `accept`, or none of them when there are more than maxFiles
acceptedFiles(fs) ==
    IF Len(Filter(fs)) > maxFiles THEN <<>> ELSE Filter(fs)

NoMessage == [type |-> "none", text |-> ""]
EmptyForm == [email |-> "", fullName |-> "", phone |-> ""]

\* one FormData.append(key, value)
Entry(k, f, t) == [key |-> k, file |-> f, text |-> t]

\* the FormData onDrop builds for `file`
uploadFormData_AlwaysPhone(file, fd) ==
    << Entry("file", file, ""),
       Entry("email", NoFile, fd.email),
       Entry("fullName", NoFile, fd.fullName),
       Entry("phone", NoFile, fd.phone) >>
uploadFormData(file, fd) ==
    << Entry("file", file, ""),
       Entry("email", NoFile, fd.email),
       Entry("fullName", NoFile, fd.fullName) >>
    \o (IF fd.phone # "" THEN <<Entry("phone", NoFile, fd.phone)>> ELSE <<>>)

\* the rejections axios.post can produce: no response at all (network error,
\* timeout), a response without a body, a body without a message, an empty
\* message, a message. An optional value is a sequence of length 0 or 1.
ServerMessages == {"", "Invalid or corrupt document: no text could be extracted"}
Errors ==
    {[response |-> <<>>]}
    \cup {[response |-> <<[data |-> <<>>]>>]}
    \cup {[response |-> <<[data |-> <<[message |-> <<>>]>>]>>]}
    \cup {[response |-> <<[data |-> <<[message |-> <<m>>]>>]>>] : m \in ServerMessages}

\* error.response?.data?.message
ResponseMessage(error) ==
    IF error.response = <<>> THEN <<>>
    ELSE IF error.response[1].data = <<>> THEN <<>>
    ELSE error.response[1].data[1].message

\* error.response?.data?.message || 'Failed to upload CV'
ErrorText(error) ==
    LET m == ResponseMessage(error)
    IN  IF m # <<>> /\ m[1] # "" THEN m[1] ELSE "Failed to upload CV"

UploadInit ==
    /\ loading = FALSE
    /\ message = NoMessage
    /\ formData = EmptyForm
    /\ inFlight = <<>>
    /\ posted = 0
    /\ timers = 0
    /\ resolved = 0
    /\ rejected = 0
    /\ callbacks = 0
    /\ event = [kind |-> "mount", files |-> <<>>]

\* the inputs are disabled while loading
InputsEnabled == ~loading

\* <input type="email" onChange>
ChangeEmail ==
    /\ InputsEnabled
    /\ \E v \in Emails :
          /\ v # formData.email
          /\ formData' = [formData EXCEPT !.email = v]
    /\ event' = [kind |-> "input", files |-> <<>>]
    /\ UNCHANGED <<loading, message, inFlight, posted, timers, resolved, rejected, callbacks>>

\* <input type="text" onChange>
ChangeFullName ==
    /\ InputsEnabled
    /\ \E v \in FullNames :
          /\ v # formData.fullName
          /\ formData' = [formData EXCEPT !.fullName = v]
    /\ event' = [kind |-> "input", files |-> <<>>]
    /\ UNCHANGED <<loading, message, inFlight, posted, timers, resolved, rejected, callbacks>>

\* <input type="tel" onChange>
ChangePhone ==
    /\ InputsEnabled
    /\ \E v \in Phones :
          /\ v # formData.phone
          /\ formData' = [formData EXCEPT !.phone = v]
    /\ event' = [kind |-> "input", files |-> <<>>]
    /\ UNCHANGED <<loading, message, inFlight, posted, timers, resolved, rejected, callbacks>>

\* useDropzone({disabled: loading})
DropzoneEnabled_Always == TRUE
DropzoneEnabled == ~loading

\* onDrop returns at once when either required field is empty
MissingField_EmailOnly(fd) == fd.email = ""
MissingField(fd) == fd.email = "" \/ fd.fullName = ""

\* onDrop up to its await: the dropzone filters the files and calls onDrop,
\* which returns early or issues the POST
Drop ==
    /\ DropzoneEnabled
    /\ posted < MaxUploads
    /\ \E fs \in Drops :
          LET accepted == acceptedFiles(fs)
          IN  /\ event' = [kind |-> "drop", files |-> fs]
              /\ IF Len(accepted) = 0
                 THEN UNCHANGED <<loading, message, inFlight, posted>>
                 ELSE IF MissingField(formData)
                 THEN /\ message' = [type |-> "error",
                                     text |-> "Please fill in email and full name"]
                      /\ UNCHANGED <<loading, inFlight, posted>>
                 ELSE LET body == uploadFormData(accepted[1], formData)
                      IN  /\ loading' = TRUE
                          /\ message' = NoMessage
                          /\ inFlight' = Append(inFlight, body)
                          /\ posted' = posted + 1
    /\ UNCHANGED <<formData, timers, resolved, rejected, callbacks>>

\* onDrop after its await, the promise fulfilled: the rest of the try block,
\* then the finally block
UploadSucceeded_NoTimer ==
    /\ inFlight # <<>>
    /\ inFlight' = Tail(inFlight)
    /\ resolved' = resolved + 1
    /\ message' = [type |-> "success", text |-> "CV uploaded and parsed successfully!"]
    /\ formData' = EmptyForm
    /\ loading' = FALSE
    /\ event' = [kind |-> "resolved", files |-> <<Head(inFlight)[1].file>>]
    /\ UNCHANGED <<posted, timers, rejected, callbacks>>
UploadSucceeded ==
    /\ inFlight # <<>>
    /\ inFlight' = Tail(inFlight)
    /\ resolved' = resolved + 1
    /\ message' = [type |-> "success", text |-> "CV uploaded and parsed successfully!"]
    /\ formData' = EmptyForm
    /\ timers' = timers + 1
    /\ loading' = FALSE
    /\ event' = [kind |-> "resolved", files |-> <<Head(inFlight)[1].file>>]
    /\ UNCHANGED <<posted, rejected, callbacks>>

\* onDrop after its await, the promise rejected: the catch block, then the
\* finally block
UploadFailed_ClearsForm ==
    /\ inFlight # <<>>
    /\ inFlight' = Tail(inFlight)
    /\ rejected' = rejected + 1
    /\ \E error \in Errors :
          message' = [type |-> "error", text |-> ErrorText(error)]
    /\ formData' = EmptyForm
    /\ loading' = FALSE
    /\ event' = [kind |-> "rejected", files |-> <<Head(inFlight)[1].file>>]
    /\ UNCHANGED <<posted, timers, resolved, callbacks>>
UploadFailed ==
    /\ inFlight # <<>>
    /\ inFlight' = Tail(inFlight)
    /\ rejected' = rejected + 1
    /\ \E error \in Errors :
          message' = [type |-> "error", text |-> ErrorText(error)]
    /\ loading' = FALSE
    /\ event' = [kind |-> "rejected", files |-> <<Head(inFlight)[1].file>>]
    /\ UNCHANGED <<formData, posted, timers, resolved, callbacks>>

\* the setTimeout callback, 1500 ms after a successful upload
TimerFires ==
    /\ timers > 0
    /\ timers' = timers - 1
    /\ callbacks' = callbacks + 1
    /\ event' = [kind |-> "timer", files |-> <<>>]
    /\ UNCHANGED <<loading, message, formData, inFlight, posted, resolved, rejected>>

UploadNext ==
    \/ ChangeEmail
    \/ ChangeFullName
    \/ ChangePhone
    \/ Drop
    \/ UploadSucceeded
    \/ UploadFailed
    \/ TimerFires

(***************************************************************************)
(* CandidateList.tsx                                                       *)
(***************************************************************************)
\* DELETE requests issued in one behaviour
MaxDeletes == 2

VARIABLES
    scoringDetails,  \* candidate.scoringDetails of the candidate rendered
    breakdown,       \* the six percentages of its "Evaluation Breakdown"
    deleting,        \* useState(null): a candidate id | null ("")
    deletes,         \* DELETE requests awaiting their response, oldest first
    deleteCount,     \* DELETE requests issued
    refreshes,       \* invocations of the onRefresh prop
    alerts,          \* alert() dialogs shown
    listEvent        \* the event handled last

listVars == <<scoringDetails, breakdown, deleting, deletes, deleteCount,
              refreshes, alerts, listEvent>>

CandidateIds == {"c1", "c2"}

\* a score scoringDetails may carry: absent (<<>>) or a number
Absent == <<>>
NewScores == {Absent, <<0>>, <<80>>}
OldScores == {Absent, <<0>>, <<60>>}
OtherScores == {Absent, <<70>>}

ScoringDetails ==
    [jobTitleScore : OtherScores,
     jobDescriptionScore : OtherScores,
     requiredSkillsScore : NewScores,
     skillsScore : OldScores,
     preferredSkillsScore : OtherScores,
     yearsExperienceScore : NewScores,
     experienceScore : OldScores,
     educationScore : OtherScores]

\* JavaScript truthiness of an optional number: undefined and 0 are falsy
Truthy(a) == a # Absent /\ a[1] # 0

\* a || b
Or(a, b) == IF Truthy(a) THEN a ELSE b

\* {a || 0}: the number rendered before the % sign
OrZero(a) == Or(a, <<0>>)[1]

\* the six cells of the grid
Breakdown(d) ==
    [jobTitle |-> OrZero(d.jobTitleScore),
     jobDescription |-> OrZero(d.jobDescriptionScore),
     requiredSkills |-> OrZero(Or(d.requiredSkillsScore, d.skillsScore)),
     preferredSkills |-> OrZero(d.preferredSkillsScore),
     yearsExperience |-> OrZero(Or(d.yearsExperienceScore, d.experienceScore)),
     education |-> OrZero(d.educationScore)]

ListInit ==
    /\ scoringDetails \in ScoringDetails
    /\ breakdown = Breakdown(scoringDetails)
    /\ deleting = ""
    /\ deletes = <<>>
    /\ deleteCount = 0
    /\ refreshes = 0
    /\ alerts = 0
    /\ listEvent = [kind |-> "mount", id |-> ""]

\* the parent passes a new `candidates` prop, one score of the candidate
\* changed, and the list renders again
PropsChanged ==
    /\ \E k \in DOMAIN scoringDetails, v \in NewScores \cup OldScores \cup OtherScores :
          LET d == [scoringDetails EXCEPT ![k] = v]
          IN  /\ d \in ScoringDetails
              /\ d # scoringDetails
              /\ scoringDetails' = d
              /\ breakdown' = Breakdown(d)
    /\ listEvent' = [kind |-> "props", id |-> ""]
    /\ UNCHANGED <<deleting, deletes, deleteCount, refreshes, alerts>>

\* handleDelete, the user declining the confirm() dialog
DeleteDeclined_StillDeletes ==
    /\ deleteCount < MaxDeletes
    /\ \E id \in CandidateIds :
          /\ deleting # id
          /\ deleting' = id
          /\ deletes' = Append(deletes, id)
          /\ listEvent' = [kind |-> "declined", id |-> id]
    /\ deleteCount' = deleteCount + 1
    /\ UNCHANGED <<scoringDetails, breakdown, refreshes, alerts>>
DeleteDeclined ==
    /\ \E id \in CandidateIds :
          /\ deleting # id
          /\ listEvent' = [kind |-> "declined", id |-> id]
    /\ UNCHANGED <<scoringDetails, breakdown, deleting, deletes, deleteCount,
                   refreshes, alerts>>

\* handleDelete up to its await, the user accepting the confirm() dialog
DeleteConfirmed ==
    /\ deleteCount < MaxDeletes
    /\ \E id \in CandidateIds :
          /\ deleting # id
          /\ deleting' = id
          /\ deletes' = Append(deletes, id)
          /\ listEvent' = [kind |-> "confirmed", id |-> id]
    /\ deleteCount' = deleteCount + 1
    /\ UNCHANGED <<scoringDetails, breakdown, refreshes, alerts>>

\* s without its i-th element
RemoveAt(s, i) == SubSeq(s, 1, i - 1) \o SubSeq(s, i + 1, Len(s))

\* handleDelete after its await, response.ok
DeleteSucceeded ==
    /\ \E i \in DOMAIN deletes :
          /\ deletes' = RemoveAt(deletes, i)
          /\ listEvent' = [kind |-> "deleted", id |-> deletes[i]]
    /\ refreshes' = refreshes + 1
    /\ deleting' = ""
    /\ UNCHANGED <<scoringDetails, breakdown, deleteCount, alerts>>

\* handleDelete after its await, fetch rejected or !response.ok
DeleteFailed ==
    /\ \E i \in DOMAIN deletes :
          /\ deletes' = RemoveAt(deletes, i)
          /\ listEvent' = [kind |-> "deleteFailed", id |-> deletes[i]]
    /\ alerts' = alerts + 1
    /\ deleting' = ""
    /\ UNCHANGED <<scoringDetails, breakdown, deleteCount, refreshes>>

\* the Refresh button
RefreshClicked ==
    /\ refreshes < MaxDeletes
    /\ refreshes' = refreshes + 1
    /\ listEvent' = [kind |-> "refresh", id |-> ""]
    /\ UNCHANGED <<scoringDetails, breakdown, deleting, deletes, deleteCount, alerts>>

ListNext ==
    \/ DeleteDeclined
    \/ DeleteConfirmed
    \/ DeleteSucceeded
    \/ DeleteFailed
    \/ RefreshClicked

(***************************************************************************)
(* data_ingestion: BatchLoader (the BatchCoordinator)                      *)
(***************************************************************************)
\* files in the directory
NumFiles == 3
\* IngestionConfig.max_workers in the runs checked
maxWorkers == 2

VARIABLES
    fileError,      \* per file: "" or the error its pipeline run raises
    submitted,      \* files dispatched to the pool so far (enumeration order)
    running,        \* files a worker is processing
    finished,       \* outcomes of completed runs the coordinator has not collected
    outcomes,       \* the FileOutcome sequence, in completion order
    completed,      \* the coordinator's count of collected outcomes
    progressCalls,  \* the (current, total) arguments of every onProgress call
    batchDone       \* load_directory has returned `outcomes`

batchVars == <<fileError, submitted, running, finished, outcomes, completed,
               progressCalls, batchDone>>

BatchFiles == 1 .. NumFiles

\* the errors of one pipeline run ("" is none)
PipelineErrors == {"CorruptDocument", "FileTooLarge"}

\* the FileOutcome of file f
FileOutcome_DropsFailure(f, err) ==
    IF err = "" THEN <<[path |-> f, success |-> TRUE, error |-> ""]>> ELSE <<>>
FileOutcome(f, err) ==
    <<[path |-> f, success |-> (err = ""), error |-> err]>>

BatchInit ==
    /\ fileError \in [BatchFiles -> {""} \cup PipelineErrors]
    /\ submitted = 0
    /\ running = {}
    /\ finished = <<>>
    /\ outcomes = <<>>
    /\ completed = 0
    /\ progressCalls = <<>>
    /\ batchDone = FALSE

\* the next file, in enumeration order, goes to an idle worker
SubmitFile ==
    /\ submitted < NumFiles
    /\ Cardinality(running) < maxWorkers
    /\ submitted' = submitted + 1
    /\ running' = running \cup {submitted + 1}
    /\ UNCHANGED <<fileError, finished, outcomes, completed, progressCalls, batchDone>>

\* a worker's pipeline run ends, with a record or with an error; either way
\* the run's outcome is queued for the coordinator
RunEnds ==
    /\ \E f \in running :
          /\ running' = running \ {f}
          /\ finished' = finished \o FileOutcome(f, fileError[f])
    /\ UNCHANGED <<fileError, submitted, outcomes, completed, progressCalls, batchDone>>

\* the coordinator collects the oldest queued outcome and reports progress
CollectOutcome ==
    /\ finished # <<>>
    /\ finished' = Tail(finished)
    /\ outcomes' = Append(outcomes, Head(finished))
    /\ completed' = completed + 1
    /\ progressCalls' = Append(progressCalls,
                               [current |-> completed + 1, total |-> NumFiles])
    /\ UNCHANGED <<fileError, submitted, running, batchDone>>

\* every file was submitted and no run is left: the batch returns
BatchReturns ==
    /\ ~batchDone
    /\ submitted = NumFiles
    /\ running = {}
    /\ finished = <<>>
    /\ batchDone' = TRUE
    /\ UNCHANGED <<fileError, submitted, running, finished, outcomes, completed,
                   progressCalls>>

BatchNext ==
    \/ SubmitFile
    \/ RunEnds
    \/ CollectOutcome
    \/ BatchReturns

(***************************************************************************)
(* data_ingestion: FileLoader and its content cache                        *)
(***************************************************************************)
\* load_file calls started in one behaviour
MaxLoads == 3
\* concurrent workers calling load_file
NumLoaders == 2

VARIABLES
    enableCaching,  \* IngestionConfig.enable_caching
    cache,          \* the cache directory: content hash -> cached text
    loader,         \* per worker: where its load_file call stands
    loadCount,      \* load_file calls started
    loaded,         \* hash -> text the loads since the last clear returned
    lastLoad,       \* the load_file call that returned last
    lastCleared,    \* what the last clear_cache call returned
    cacheEvent      \* the step taken last

cacheVars == <<enableCaching, cache, loader, loadCount, loaded, lastLoad,
               lastCleared, cacheEvent>>

Loaders == 1 .. NumLoaders

\* file contents: two readable documents and one no extractor can read
Contents == {"bytes-A", "bytes-B", "bytes-X"}

\* the SHA-256 digest of the content
Hash(c) ==
    CASE c = "bytes-A" -> "sha-a1"
      [] c = "bytes-B" -> "sha-b2"
      [] c = "bytes-X" -> "sha-x9"

\* the text the extractor finds in the content; <<>> when it fails
\* (CorruptDocument)
Extract(c) ==
    CASE c = "bytes-A" -> <<"text of A">>
      [] c = "bytes-B" -> <<"text of B">>
      [] c = "bytes-X" -> <<>>

Idle == [pc |-> "idle", content |-> "", text |-> ""]

\* the texts returned so far, by hash
Remember(l, h, text) == [k \in DOMAIN l \cup {h} |-> IF k = h THEN text ELSE l[k]]

\* the cache as a function from the hashes it holds: one entry is written
Put_EvictsOthers(c, h, text) == [k \in {h} |-> text]
Put(c, h, text) == [k \in DOMAIN c \cup {h} |-> IF k = h THEN text ELSE c[k]]

CacheInit ==
    /\ enableCaching \in BOOLEAN
    /\ cache = <<>>
    /\ loader = [w \in Loaders |-> Idle]
    /\ loadCount = 0
    /\ loaded = <<>>
    /\ lastLoad = [content |-> "", hit |-> FALSE, text |-> <<>>]
    /\ lastCleared = 0
    /\ cacheEvent = "init"

\* load_file, the cache lookup finding the hash: the cached text is returned
LoadHit ==
    /\ loadCount < MaxLoads
    /\ enableCaching
    /\ \E w \in Loaders, c \in Contents :
          /\ loader[w].pc = "idle"
          /\ Hash(c) \in DOMAIN cache
          /\ lastLoad' = [content |-> c, hit |-> TRUE, text |-> <<cache[Hash(c)]>>]
          /\ loaded' = Remember(loaded, Hash(c), cache[Hash(c)])
    /\ loadCount' = loadCount + 1
    /\ cacheEvent' = "hit"
    /\ UNCHANGED <<enableCaching, cache, loader, lastCleared>>

\* load_file, the cache lookup finding nothing (or caching disabled): the
\* worker goes on to extract
LoadMiss ==
    /\ loadCount < MaxLoads
    /\ \E w \in Loaders, c \in Contents :
          /\ loader[w].pc = "idle"
          /\ ~enableCaching \/ Hash(c) \notin DOMAIN cache
          /\ loader' = [loader EXCEPT ![w] = [pc |-> "extract", content |-> c, text |-> ""]]
    /\ loadCount' = loadCount + 1
    /\ cacheEvent' = "miss"
    /\ UNCHANGED <<enableCaching, cache, loaded, lastLoad, lastCleared>>

\* the extractor fails: load_file raises, nothing is cached
ExtractFails ==
    /\ \E w \in Loaders :
          /\ loader[w].pc = "extract"
          /\ Extract(loader[w].content) = <<>>
          /\ loader' = [loader EXCEPT ![w] = Idle]
          /\ lastLoad' = [content |-> loader[w].content, hit |-> FALSE, text |-> <<>>]
    /\ cacheEvent' = "failed"
    /\ UNCHANGED <<enableCaching, cache, loadCount, loaded, lastCleared>>

\* the extractor succeeds
ExtractSucceeds ==
    /\ \E w \in Loaders :
          /\ loader[w].pc = "extract"
          /\ Extract(loader[w].content) # <<>>
          /\ loader' = [loader EXCEPT ![w] = [pc |-> "write",
                                              content |-> loader[w].content,
                                              text |-> Extract(loader[w].content)[1]]]
    /\ cacheEvent' = "extracted"
    /\ UNCHANGED <<enableCaching, cache, loadCount, loaded, lastLoad, lastCleared>>

\* the fresh extraction is written to the cache under its hash, in one atomic
\* write, when caching is enabled; load_file returns the text
WriteBack ==
    /\ \E w \in Loaders :
          LET c == loader[w].content
              t == loader[w].text
          IN  /\ loader[w].pc = "write"
              /\ loader' = [loader EXCEPT ![w] = Idle]
              /\ lastLoad' = [content |-> c, hit |-> FALSE, text |-> <<t>>]
              /\ IF enableCaching
                 THEN /\ cache' = Put(cache, Hash(c), t)
                      /\ loaded' = Remember(loaded, Hash(c), t)
                 ELSE UNCHANGED <<cache, loaded>>
    /\ cacheEvent' = "written"
    /\ UNCHANGED <<enableCaching, loadCount, lastCleared>>

\* clear_cache: every entry is deleted and their number returned
ClearCache ==
    /\ cache # <<>>
    /\ cache' = <<>>
    /\ loaded' = <<>>
    /\ lastCleared' = Cardinality(DOMAIN cache)
    /\ cacheEvent' = "clear"
    /\ UNCHANGED <<enableCaching, loader, loadCount, lastLoad>>

CacheNext ==
    \/ LoadHit
    \/ LoadMiss
    \/ ExtractFails
    \/ ExtractSucceeds
    \/ WriteBack
    \/ ClearCache

(***************************************************************************)
(* Specifications: the four components share no state                      *)
(***************************************************************************)
vars == <<uploadVars, listVars, batchVars, cacheVars>>

\* the components at rest: the state each is in when another one is checked
ListIdle ==
    /\ ListInit
    /\ scoringDetails = [jobTitleScore |-> Absent, jobDescriptionScore |-> Absent,
                         requiredSkillsScore |-> Absent, skillsScore |-> Absent,
                         preferredSkillsScore |-> Absent,
                         yearsExperienceScore |-> Absent,
                         experienceScore |-> Absent, educationScore |-> Absent]
BatchIdle == BatchInit /\ fileError = [f \in BatchFiles |-> ""]
CacheIdle == CacheInit /\ enableCaching = TRUE

\* CVUpload
Init == UploadInit /\ ListIdle /\ BatchIdle /\ CacheIdle
Next == UploadNext /\ UNCHANGED <<listVars, batchVars, cacheVars>>
Spec == Init /\ [][Next]_vars

\* CandidateList, the evaluation breakdown it renders
InitBreakdown == UploadInit /\ ListInit /\ BatchIdle /\ CacheIdle
NextBreakdown == PropsChanged /\ UNCHANGED <<uploadVars, batchVars, cacheVars>>
SpecBreakdown == InitBreakdown /\ [][NextBreakdown]_vars

\* CandidateList, deleting candidates
InitList == UploadInit /\ ListIdle /\ BatchIdle /\ CacheIdle
NextList == ListNext /\ UNCHANGED <<uploadVars, batchVars, cacheVars>>
SpecList == InitList /\ [][NextList]_vars

\* BatchLoader
InitBatch == UploadInit /\ ListIdle /\ BatchInit /\ CacheIdle
NextBatch == BatchNext /\ UNCHANGED <<uploadVars, listVars, cacheVars>>
SpecBatch == InitBatch /\ [][NextBatch]_vars

\* FileLoader and its cache
InitCache == UploadInit /\ ListIdle /\ BatchIdle /\ CacheInit
NextCache == CacheNext /\ UNCHANGED <<uploadVars, listVars, batchVars>>
SpecCache == InitCache /\ [][NextCache]_vars

(***************************************************************************)
(* Properties                                                              *)
(***************************************************************************)
\* a file that is a PDF or a DOCX neither by the extension of its name nor by
\* its MIME type
NotPdfNorDocx(f) ==
    /\ f.ext \notin {".pdf", ".docx"}
    /\ f.mime \notin {PDF_MIME, DOCX_MIME}

AllFiles(fs, P(_)) == \A i \in DOMAIN fs : P(fs[i])

\* the entries of a FormData body under one key
EntriesOf(body, k) == {i \in DOMAIN body : body[i].key = k}

\* C1: a drop or selection of files none of which is a PDF or a DOCX issues
\* no POST to /api/candidates/upload, puts no request in flight, and loading
\* is false before and after it.
C1_RejectedBeforeSend ==
    [][ (event'.kind = "drop" /\ event'.files # <<>>
            /\ AllFiles(event'.files, NotPdfNorDocx))
        => (posted' = posted /\ inFlight' = inFlight /\ ~loading /\ ~loading') ]_vars

\* a text file was dropped on a completely filled form and nothing was sent
C1_Witness ==
    /\ event.kind = "drop"
    /\ Len(event.files) = 1
    /\ NotPdfNorDocx(event.files[1])
    /\ formData.email # "" /\ formData.fullName # ""
    /\ posted = 0
    /\ ~loading

C3_RequestBody ==
    [][ posted' # posted
        => /\ posted' = posted + 1
           /\ Len(inFlight') = Len(inFlight) + 1
           /\ LET body == inFlight'[Len(inFlight')]
                  one(k) == body[CHOOSE i \in EntriesOf(body, k) : TRUE]
              IN  /\ Cardinality(EntriesOf(body, "file")) = 1
                  /\ one("file").file = acceptedFiles(event'.files)[1]
                  /\ ~NotPdfNorDocx(one("file").file)
                  /\ Cardinality(EntriesOf(body, "email")) = 1
                  /\ one("email").text = formData.email
                  /\ Cardinality(EntriesOf(body, "fullName")) = 1
                  /\ one("fullName").text = formData.fullName
                  /\ (EntriesOf(body, "phone") # {}) <=> (formData.phone # "")
                  /\ Cardinality(EntriesOf(body, "phone")) <= 1
                  /\ \A i \in EntriesOf(body, "phone") : body[i].text = formData.phone
                  /\ \A i \in DOMAIN body :
                        body[i].key \in {"file", "email", "fullName", "phone"} ]_vars

\* a request without a phone entry is in flight
C3_Witness ==
    /\ Len(inFlight) = 1
    /\ EntriesOf(inFlight[1], "phone") = {}
    /\ formData.phone = ""
    /\ event.kind = "drop"
    /\ Len(event.files) = 2
    /\ NotPdfNorDocx(event.files[1])

\* C4: after the upload of a corrupt document failed, the message shown is
\* an error message with a specific reason, not the generic
\* 'Failed to upload CV'.
C4_SpecificReason ==
    (event.kind = "rejected" /\ event.files[1].corrupt)
        => (message.type = "error" /\ message.text # "Failed to upload CV")

\* the optional score s shown as the claim reads it: the value when carried
Carried(s, fallback) == IF s # Absent THEN s[1] ELSE fallback

\* C5: 'Required Skills' shows requiredSkillsScore whenever scoringDetails
\* carries it, skillsScore only when it is absent, and 0 when both are
\* absent; 'Years Experience' does the same with yearsExperienceScore and
\* experienceScore.
C5_FallbackPair ==
    /\ breakdown.requiredSkills =
          Carried(scoringDetails.requiredSkillsScore,
                  Carried(scoringDetails.skillsScore, 0))
    /\ breakdown.yearsExperience =
          Carried(scoringDetails.yearsExperienceScore,
                  Carried(scoringDetails.experienceScore, 0))

\* the outcomes of file f among the outcomes collected
OutcomesOf(f) == {i \in DOMAIN outcomes : outcomes[i].path = f}

\* C6: a batch over NumFiles files returns exactly NumFiles outcomes, one per
\* file, a failing file's with success = FALSE and its error; onProgress is
\* called once per collected outcome with the counts 1, 2, ... in completion
\* order, NumFiles times in all; at most maxWorkers runs are in progress.
C6_BatchOutcomes ==
    /\ Cardinality(running) <= maxWorkers
    /\ Len(progressCalls) = Len(outcomes)
    /\ \A i \in DOMAIN progressCalls :
          progressCalls[i] = [current |-> i, total |-> NumFiles]
    /\ \A f \in BatchFiles : Cardinality(OutcomesOf(f)) <= 1
    /\ batchDone =>
          /\ Len(outcomes) = NumFiles
          /\ Len(progressCalls) = NumFiles
          /\ \A f \in BatchFiles :
                /\ Cardinality(OutcomesOf(f)) = 1
                /\ \A i \in OutcomesOf(f) :
                      /\ outcomes[i].success = (fileError[f] = "")
                      /\ outcomes[i].error = fileError[f]

\* the batch returned with the first file failed, the others successful, and
\* the outcomes not in enumeration order
C6_Witness ==
    /\ batchDone
    /\ fileError[1] # ""
    /\ \A f \in BatchFiles \ {1} : fileError[f] = ""
    /\ outcomes[1].path # 1
    /\ \E i \in DOMAIN outcomes : ~outcomes[i].success

\* C7: with caching enabled, the text a load returned stays in the cache
\* under the content's hash until the cache is cleared; a load of content
\* already loaded since the last clear is a cache hit and returns that same
\* text; an entry changes or disappears only by clear_cache, which removes
\* every entry and returns their number.
C7_CacheStable ==
    /\ [](\A h \in DOMAIN loaded : h \in DOMAIN cache /\ cache[h] = loaded[h])
    /\ [][ /\ \A w \in Loaders :
                (loader[w].pc = "idle" /\ loader'[w].pc = "extract" /\ enableCaching)
                    => Hash(loader'[w].content) \notin DOMAIN loaded
           /\ (cacheEvent' = "hit" /\ loadCount' # loadCount)
                    => /\ lastLoad'.hit
                       /\ lastLoad'.text = <<cache[Hash(lastLoad'.content)]>>
                       /\ lastLoad'.text = Extract(lastLoad'.content)
           /\ \A h \in DOMAIN cache :
                \/ h \in DOMAIN cache' /\ cache'[h] = cache[h]
                \/ /\ cacheEvent' = "clear"
                   /\ cache' = <<>>
                   /\ lastCleared' = Cardinality(DOMAIN cache) ]_vars

\* both documents were loaded and cached, and the last load was a cache hit
C7_Witness ==
    /\ enableCaching
    /\ DOMAIN cache = {Hash("bytes-A"), Hash("bytes-B")}
    /\ lastLoad.hit
    /\ cacheEvent = "hit"

\* C8: onUploadSuccess is invoked once per fulfilled upload request: a
\* callback is scheduled only by the step that handles a fulfilled request,
\* which sets the success message and empties the form; each invocation
\* consumes one scheduled callback; no rejected request and no drop schedules
\* or invokes one.
C8_CallbackOncePerSuccess ==
    /\ [](callbacks + timers = resolved)
    /\ [][ /\ timers' > timers
              => /\ event'.kind = "resolved"
                 /\ timers' = timers + 1
                 /\ resolved' = resolved + 1
                 /\ message' = [type |-> "success",
                                text |-> "CV uploaded and parsed successfully!"]
                 /\ formData' = EmptyForm
           /\ callbacks' # callbacks
              => /\ event'.kind = "timer"
                 /\ callbacks' = callbacks + 1
                 /\ timers' = timers - 1
           /\ event'.kind \in {"rejected", "drop", "input"}
              => (timers' = timers /\ callbacks' = callbacks) ]_vars

\* two uploads succeeded and one failed; both callbacks ran
C8_Witness ==
    /\ resolved = 2
    /\ rejected = 1
    /\ callbacks = 2
    /\ timers = 0

\* C9: the step that handles a rejected upload request leaves email, fullName
\* and phone as they were sent, and leaves loading false and the dropzone
\* enabled; of the steps of onDrop only the one handling a fulfilled request
\* changes the fields, to empty.
C9_FailureKeepsForm ==
    [][ /\ event'.kind = "rejected"
           => /\ formData' = formData
              /\ \A i \in EntriesOf(Head(inFlight), "email") :
                    Head(inFlight)[i].text = formData'.email
              /\ \A i \in EntriesOf(Head(inFlight), "fullName") :
                    Head(inFlight)[i].text = formData'.fullName
              /\ formData'.email # "" /\ formData'.fullName # ""
              /\ ~loading'
              /\ DropzoneEnabled'
        /\ (event'.kind \in {"drop", "resolved", "rejected", "timer"}
                /\ formData' # formData)
           => (event'.kind = "resolved" /\ formData' = EmptyForm) ]_vars

\* an upload with all three fields filled in failed
C9_Witness ==
    /\ event.kind = "rejected"
    /\ message.type = "error"
    /\ formData = [email |-> "ann@x.io", fullName |-> "Ann Lee", phone |-> "+15550100"]
    /\ ~loading

\* C10: loading is true exactly while an upload request is in flight; at most
\* one request is in flight; while one is in flight no drop is accepted, no
\* request is issued and the form fields do not change until the step that
\* handles its response, which resets loading.
C10_LoadingWhileInFlight ==
    /\ [](loading <=> inFlight # <<>>)
    /\ [](Len(inFlight) <= 1)
    /\ [](posted = Len(inFlight) + resolved + rejected)
    /\ [][ /\ inFlight # <<>>
              => \/ /\ event'.kind \in {"resolved", "rejected"}
                    /\ ~loading'
                    /\ inFlight' = <<>>
                 \/ /\ event'.kind = "timer"
                    /\ UNCHANGED <<formData, inFlight, posted, loading>>
           /\ posted' # posted => (~loading /\ loading') ]_vars

\* the second upload request is in flight
C10_Witness ==
    /\ loading
    /\ Len(inFlight) = 1
    /\ posted = 2

\* C11: a delete the user declines in the confirmation dialog issues no
\* DELETE request, leaves the deleting state as it was, and calls neither
\* onRefresh nor alert.
C11_DeclinedDeleteNoEffect ==
    [][ listEvent'.kind = "declined"
        => /\ deleteCount' = deleteCount
           /\ deletes' = deletes
           /\ deleting' = deleting
           /\ refreshes' = refreshes
           /\ alerts' = alerts ]_vars

\* the delete of c2 was declined while the delete of c1 awaits its response
C11_Witness ==
    /\ listEvent = [kind |-> "declined", id |-> "c2"]
    /\ deleting = "c1"
    /\ deletes = <<"c1">>
    /\ deleteCount = 1
    /\ refreshes = 0

====
